---- MODULE Spec2Model ----
(***************************************************************************)
(* Model of weather_datadog.py: the polling loop of main(), the fetcher    *)
(* get_weather_data, the publisher submit_datadog_metrics and the signal   *)
(* handler.  The model starts right after the two signal handlers have     *)
(* been registered (line 114), so every SIGINT/SIGTERM runs signal_handler.*)
(*                                                                         *)
(* Abstractions: logging is left out; the clock `now` advances only with   *)
(* time.sleep(1), network calls take no clock time; HTTP statuses are      *)
(* drawn from 200/404/500; api.Metric.send either returns or raises an     *)
(* Exception; response.json() on a body that is not JSON raises either a   *)
(* RequestException or a plain ValueError, depending on the installed      *)
(* requests (json_exc).                                                    *)
(***************************************************************************)
EXTENDS Integers, Sequences, FiniteSets, TLC

(* ---------------- bounds of the model ---------------- *)
MaxCycles == 2          \* loop iterations explored

(* ---------------- inputs ---------------- *)
EnvNames == {"OPENWEATHER_API_KEY", "DATADOG_API_KEY", "DATADOG_APP_KEY", "ZIP_CODE"}

\* os.getenv returns None ("None" here) for an absent variable
EnvValues(n) ==
    IF n = "ZIP_CODE" THEN {"None", "", "10001", "94105"}
    ELSE IF n = "OPENWEATHER_API_KEY" THEN {"None", "", "k1", "k2"}
    ELSE {"None", "", "dd"}

Temps == {0, 22}
Hums == {0, 63}
Statuses == {200, 404, 500}

None == [type |-> "NoneType"]
Dict(t, h) == [type |-> "dict", temperature |-> t, humidity |-> h]

\* JSON values that can stand at data["main"]
MainObjects ==
    { [t |-> "obj", f |-> g] :
        g \in UNION { [K -> Temps \cup Hums] : K \in SUBSET {"temp", "humidity"} } }
MainValues ==
    { m \in MainObjects :
        /\ ("temp" \in DOMAIN m.f => m.f["temp"] \in Temps)
        /\ ("humidity" \in DOMAIN m.f => m.f["humidity"] \in Hums) }
    \cup { [t |-> "list", f |-> <<>>], [t |-> "null", f |-> <<>>] }

\* decoded JSON documents: an object with or without "main", or a top-level list
JsonDocs ==
    { [t |-> "obj", f |-> [k \in {"main"} |-> m]] : m \in MainValues }
    \cup { [t |-> "obj", f |-> <<>>], [t |-> "list", f |-> <<>>] }

Bodies ==
    { [kind |-> "json", data |-> d] : d \in JsonDocs }
    \cup { [kind |-> "notjson", data |-> [t |-> "null", f |-> <<>>]] }

NoResponse == [kind |-> "none", status |-> 0, body |-> [kind |-> "none"]]
\* outcome of requests.get: a network failure/timeout, or a response
Responses ==
    { [kind |-> "neterr", status |-> 0, body |-> [kind |-> "none"]] }
    \cup { [kind |-> "http", status |-> s, body |-> b] : s \in Statuses, b \in Bodies }

(* ---------------- pure parts of the code ---------------- *)
\* `if not <env var>`: None and the empty string are falsy
Missing(v) == v \in {"None", ""}

\* variant: the ZIP_CODE check of lines 132-134 left out
ConfigOK_NoZip(e) ==
    /\ ~Missing(e["OPENWEATHER_API_KEY"])
    /\ ~Missing(e["DATADOG_API_KEY"])
    /\ ~Missing(e["DATADOG_APP_KEY"])

ConfigOK(e) ==
    /\ ~Missing(e["OPENWEATHER_API_KEY"])
    /\ ~Missing(e["DATADOG_API_KEY"])
    /\ ~Missing(e["DATADOG_APP_KEY"])
    /\ ~Missing(e["ZIP_CODE"])

\* variant: the raise_for_status() call of line 58 left out
RaiseForStatus_Never(status) == FALSE

\* response.raise_for_status(): HTTPError for 4xx and 5xx
RaiseForStatus(status) == status >= 400 /\ status < 600

\* v[key] for a string key
Subscript(v, key) ==
    IF v.t # "obj" THEN [raised |-> "TypeError", value |-> v]
    ELSE IF key \notin DOMAIN v.f THEN [raised |-> "KeyError", value |-> v]
    ELSE [raised |-> "none", value |-> v.f[key]]

Return(v) == [raised |-> "none", value |-> v]
Raise(exc) == [raised |-> exc, value |-> None]

\* except KeyError: return None; any other exception leaves the function
Handle(exc) == IF exc = "KeyError" THEN Return(None) ELSE Raise(exc)

\* json_is_request_exc: whether the installed requests raises
\* requests.exceptions.JSONDecodeError (a RequestException) or a bare ValueError
GetWeatherData(zip_code, api_key, resp, json_is_request_exc) ==
    IF resp.kind = "neterr" THEN Return(None)
    ELSE IF RaiseForStatus(resp.status) THEN Return(None)
    ELSE IF resp.body.kind = "notjson"
         THEN IF json_is_request_exc THEN Return(None) ELSE Raise("ValueError")
    ELSE LET main == Subscript(resp.body.data, "main") IN
         IF main.raised # "none" THEN Handle(main.raised)
         ELSE LET temp == Subscript(main.value, "temp") IN
              IF temp.raised # "none" THEN Handle(temp.raised)
              ELSE LET hum == Subscript(main.value, "humidity") IN
                   IF hum.raised # "none" THEN Handle(hum.raised)
                   ELSE Return(Dict(temp.value, hum.value))

\* `if weather_data:` -- None is falsy, the two-key dict is truthy
Truthy(v) == v.type = "dict"

\* variant: the two positional arguments of lines 156-157 exchanged
PublisherArgs_Swapped(wd) == [temperature |-> wd.humidity, humidity |-> wd.temperature]

\* the positional arguments of the submit_datadog_metrics call
PublisherArgs(wd) == [temperature |-> wd.temperature, humidity |-> wd.humidity]

\* variant: the metric submitted as a counter
MetricSend_Count(name, ts, value) ==
    [metric |-> name, points |-> << <<ts, value>> >>, type |-> "count"]

\* keyword arguments of one api.Metric.send call
MetricSend(name, ts, value) ==
    [metric |-> name, points |-> << <<ts, value>> >>, type |-> "gauge"]

TemperatureMetric == "environment.temperature.outside"
HumidityMetric == "environment.humidity.outside"

\* variant: the interval the log line of 166 announces
SleepTicks_Logged == 15

SleepTicks == 300

\* `while not shutdown_flag`
WhileCond(flag) == ~flag
\* variant: the wait without the check of lines 168-169
ForBreak_Never(flag) == FALSE

\* `if shutdown_flag: break` inside the wait
ForBreak(flag) == flag

(* ---------------- state ---------------- *)
VARIABLES
    pc,             \* position of main()
    env,            \* the process environment
    json_exc,       \* the installed requests: JSON errors are RequestExceptions
    shutdown_flag,
    dd_initialized, \* initialize(**options) has run
    weather_data,   \* main's local
    response,       \* what requests.get produced, while get_weather_data runs
    args,           \* arguments of the running submit_datadog_metrics call
    i,              \* index of the `for _ in range(300)` loop
    now,            \* int(time.time()): seconds slept since process start
    exit_code,      \* process exit status, meaningful when pc = "exited"
    uncaught,       \* exception that ended main(), "none" if it returned
    cycle,          \* history: loop iterations begun
    fetches,        \* history: HTTP GETs issued
    pub_calls,      \* history: submit_datadog_metrics calls in this cycle
    sends,          \* history: api.Metric.send calls of this cycle, in order
    sig             \* history: where main was when the first signal arrived

vars == <<pc, env, json_exc, shutdown_flag, dd_initialized, weather_data,
          response, args, i, now, exit_code, uncaught, cycle, fetches,
          pub_calls, sends, sig>>

NoSig == [at |-> "none", cycle |-> 0, i |-> 0, sends |-> 0]
NoArgs == [temperature |-> 0, humidity |-> 0]

Init ==
    /\ pc = "validate"
    /\ env \in { e \in [EnvNames -> UNION { EnvValues(n) : n \in EnvNames }] :
                   \A n \in EnvNames : e[n] \in EnvValues(n) }
    /\ json_exc \in BOOLEAN
    /\ shutdown_flag = FALSE
    /\ dd_initialized = FALSE
    /\ weather_data = None
    /\ response = NoResponse
    /\ args = NoArgs
    /\ i = 0
    /\ now = 0
    /\ exit_code = 0
    /\ uncaught = "none"
    /\ cycle = 0
    /\ fetches = 0
    /\ pub_calls = 0
    /\ sends = <<>>
    /\ sig = NoSig

(* ---------------- actions ---------------- *)
\* signal_handler: may run between any two steps of main()
Signal ==
    /\ pc # "exited"
    /\ shutdown_flag' = TRUE
    /\ sig' = IF sig.at = "none"
              THEN [at |-> pc, cycle |-> cycle, i |-> i, sends |-> Len(sends)]
              ELSE sig
    /\ UNCHANGED <<pc, env, json_exc, dd_initialized, weather_data, response,
                   args, i, now, exit_code, uncaught, cycle, fetches,
                   pub_calls, sends>>

\* lines 117-134: read and validate the environment
Validate ==
    /\ pc = "validate"
    /\ IF ConfigOK(env)
       THEN /\ pc' = "init"
            /\ UNCHANGED <<exit_code, uncaught>>
       ELSE /\ pc' = "exited"
            /\ exit_code' = 1
            /\ uncaught' = "SystemExit"
    /\ UNCHANGED <<env, json_exc, shutdown_flag, dd_initialized, weather_data,
                   response, args, i, now, cycle, fetches, pub_calls, sends, sig>>

\* lines 137-146
InitDatadog ==
    /\ pc = "init"
    /\ dd_initialized' = TRUE
    /\ pc' = "loop"
    /\ UNCHANGED <<env, json_exc, shutdown_flag, weather_data, response, args,
                   i, now, exit_code, uncaught, cycle, fetches, pub_calls,
                   sends, sig>>

\* line 149, and line 172 when the loop ends
LoopTest ==
    /\ pc = "loop"
    /\ IF WhileCond(shutdown_flag)
       THEN /\ cycle < MaxCycles
            /\ pc' = "request"
            /\ cycle' = cycle + 1
            /\ pub_calls' = 0
            /\ sends' = <<>>
            /\ UNCHANGED <<exit_code>>
       ELSE /\ pc' = "exited"
            /\ exit_code' = 0
            /\ UNCHANGED <<cycle, pub_calls, sends>>
    /\ UNCHANGED <<env, json_exc, shutdown_flag, dd_initialized, weather_data,
                   response, args, i, now, uncaught, fetches, sig>>

\* lines 56-57: the GET is issued and answered (or fails) within its timeout
FetchRequest ==
    /\ pc = "request"
    /\ \E r \in Responses : response' = r
    /\ fetches' = fetches + 1
    /\ pc' = "parse"
    /\ UNCHANGED <<env, json_exc, shutdown_flag, dd_initialized, weather_data,
                   args, i, now, exit_code, uncaught, cycle, pub_calls, sends,
                   sig>>

\* lines 58-74 and the assignment of line 151
FetchReturn ==
    /\ pc = "parse"
    /\ LET out == GetWeatherData(env["ZIP_CODE"], env["OPENWEATHER_API_KEY"],
                                 response, json_exc) IN
         IF out.raised = "none"
         THEN /\ weather_data' = out.value
              /\ pc' = "branch"
              /\ UNCHANGED <<exit_code, uncaught>>
         ELSE /\ pc' = "exited"
              /\ exit_code' = 1
              /\ uncaught' = out.raised
              /\ UNCHANGED weather_data
    /\ UNCHANGED <<env, json_exc, shutdown_flag, dd_initialized, response, args,
                   i, now, cycle, fetches, pub_calls, sends, sig>>

\* lines 153-162
Branch ==
    /\ pc = "branch"
    /\ IF Truthy(weather_data)
       THEN /\ args' = PublisherArgs(weather_data)
            /\ pub_calls' = pub_calls + 1
            /\ pc' = "send_temp"
       ELSE /\ pc' = "wait"
            /\ UNCHANGED <<args, pub_calls>>
    /\ response' = NoResponse
    /\ UNCHANGED <<env, json_exc, shutdown_flag, dd_initialized, weather_data,
                   i, now, exit_code, uncaught, cycle, fetches, sends, sig>>

\* lines 89-94; an exception of the send goes to the handler of line 104
SendTemperature ==
    /\ pc = "send_temp"
    /\ \E ok \in BOOLEAN :
         /\ sends' = Append(sends, [call |-> MetricSend(TemperatureMetric, now, args.temperature),
                                    ok |-> ok])
         /\ pc' = IF ok THEN "send_hum" ELSE "wait"
         /\ args' = IF ok THEN args ELSE NoArgs
    /\ UNCHANGED <<env, json_exc, shutdown_flag, dd_initialized, weather_data,
                   response, i, now, exit_code, uncaught, cycle, fetches,
                   pub_calls, sig>>

\* lines 97-102
SendHumidity ==
    /\ pc = "send_hum"
    /\ \E ok \in BOOLEAN :
         sends' = Append(sends, [call |-> MetricSend(HumidityMetric, now, args.humidity),
                                 ok |-> ok])
    /\ pc' = "wait"
    /\ args' = NoArgs
    /\ UNCHANGED <<env, json_exc, shutdown_flag, dd_initialized, weather_data,
                   response, i, now, exit_code, uncaught, cycle, fetches,
                   pub_calls, sig>>

\* line 165
WaitGuard ==
    /\ pc = "wait"
    /\ IF ~shutdown_flag
       THEN /\ i' = 0
            /\ pc' = "for"
       ELSE /\ pc' = "loop"
            /\ UNCHANGED i
    /\ UNCHANGED <<env, json_exc, shutdown_flag, dd_initialized, weather_data,
                   response, args, now, exit_code, uncaught, cycle, fetches,
                   pub_calls, sends, sig>>

\* lines 167-169: next item of range(300), then the flag check
ForCheck ==
    /\ pc = "for"
    /\ pc' = IF i >= SleepTicks THEN "loop"
             ELSE IF ForBreak(shutdown_flag) THEN "loop"
             ELSE "sleep"
    /\ UNCHANGED <<env, json_exc, shutdown_flag, dd_initialized, weather_data,
                   response, args, i, now, exit_code, uncaught, cycle, fetches,
                   pub_calls, sends, sig>>

\* line 170: time.sleep(1) runs to its end, also when a handler ran meanwhile
Sleep ==
    /\ pc = "sleep"
    /\ now' = now + 1
    /\ i' = i + 1
    /\ pc' = "for"
    /\ UNCHANGED <<env, json_exc, shutdown_flag, dd_initialized, weather_data,
                   response, args, exit_code, uncaught, cycle, fetches,
                   pub_calls, sends, sig>>

Next ==
    \/ Signal
    \/ Validate
    \/ InitDatadog
    \/ LoopTest
    \/ FetchRequest
    \/ FetchReturn
    \/ Branch
    \/ SendTemperature
    \/ SendHumidity
    \/ WaitGuard
    \/ ForCheck
    \/ Sleep

Spec == Init /\ [][Next]_vars

(* ---------------- properties ---------------- *)
StepDone == pc \in {"wait", "for", "sleep", "loop"} \/ (pc = "exited" /\ uncaught = "none")
InLoop == cycle >= 1

\* C1: once the loop has started no error is fatal: main() ends only by
\* returning normally after a shutdown signal, never through an exception of
\* a fetch or a publish.
C1_NoFatalError ==
    (pc = "exited" /\ dd_initialized) =>
        (uncaught = "none" /\ exit_code = 0 /\ shutdown_flag)

\* C2: the two submissions are independent: when the temperature send has
\* raised, the humidity send has still been attempted by the time
\* submit_datadog_metrics returns.
C2_SendsIndependent ==
    (StepDone /\ Len(sends) >= 1 /\ ~sends[1].ok) =>
        (Len(sends) = 2 /\ sends[2].call.metric = HumidityMetric)

\* C3: with a required environment variable absent the run never gets past
\* validation, ends with status 1, issues no fetch and no send and never
\* initializes the Datadog client, whether or not a signal has arrived.
C3_MissingConfigExits ==
    (\E n \in EnvNames : env[n] = "None") =>
        /\ pc \in {"validate", "exited"}
        /\ (pc = "exited" => exit_code = 1)
        /\ cycle = 0
        /\ fetches = 0
        /\ pub_calls = 0
        /\ sends = <<>>
        /\ ~dd_initialized

C3_Witness ==
    /\ pc = "exited"
    /\ exit_code = 1
    /\ env["ZIP_CODE"] = "None"
    /\ \A n \in EnvNames \ {"ZIP_CODE"} : ~Missing(env[n])
    /\ shutdown_flag

\* C4: a signal that arrives during the wait lets at most one further
\* one-second sleep complete; the wait is then left, the loop ends with
\* status 0, and no fetch and no send happens after the signal.
C4_SleepInterrupt ==
    sig.at \in {"for", "sleep"} =>
        /\ pc \in {"for", "sleep", "loop", "exited"}
        /\ i <= sig.i + 1
        /\ (pc = "sleep" => (sig.at = "sleep" /\ i = sig.i))
        /\ cycle = sig.cycle
        /\ fetches = sig.cycle
        /\ Len(sends) = sig.sends
        /\ (pc = "exited" => (exit_code = 0 /\ uncaught = "none"))

C4_Witness ==
    /\ pc = "exited"
    /\ sig.at = "sleep"
    /\ sig.i = 7
    /\ i = 8

\* C5: in every cycle the fetch is issued exactly once and before any
\* publish; the Publisher is called once, with the Reading's temperature and
\* humidity, exactly when the fetch returned a Reading; after a failed fetch
\* nothing is sent and the cycle goes on to the wait.
C5_FetchThenPublish ==
    /\ fetches = (IF pc = "request" THEN cycle - 1 ELSE cycle)
    /\ (pc \in {"request", "parse", "branch"} => (pub_calls = 0 /\ sends = <<>>))
    /\ (pc \in {"send_temp", "send_hum"} =>
            /\ pub_calls = 1
            /\ Truthy(weather_data)
            /\ args.temperature = weather_data.temperature
            /\ args.humidity = weather_data.humidity)
    /\ ((StepDone /\ InLoop) =>
            /\ pub_calls = (IF weather_data = None THEN 0 ELSE 1)
            /\ (weather_data = None => sends = <<>>)
            /\ (weather_data # None => Len(sends) >= 1))
    /\ ((pc = "loop" /\ InLoop /\ ~shutdown_flag /\ weather_data = None) => i = 300)

C5_Witness ==
    /\ pc = "wait"
    /\ cycle = 2
    /\ weather_data = Dict(22, 63)
    /\ pub_calls = 1
    /\ Len(sends) = 2
    /\ sends[1].call.points[1][2] = 22
    /\ sends[2].call.points[1][2] = 63

\* C6: a response with status >= 400 gives None; a success response whose
\* "main" object lacks "temp" or "humidity" gives None; a success response
\* with both gives the dict of exactly these two values; none of the three
\* raises.  (Stated on the response as received, for every ZIP code and key.)
HasMainObject(r) ==
    /\ r.kind = "http"
    /\ r.body.kind = "json"
    /\ r.body.data.t = "obj"
    /\ "main" \in DOMAIN r.body.data.f
    /\ r.body.data.f["main"].t = "obj"
MainOf(r) == r.body.data.f["main"].f
C6_Expected(r, wd) ==
    /\ (r.kind = "http" /\ r.status >= 400) => wd = None
    /\ (r.status < 400 /\ HasMainObject(r)) =>
          IF {"temp", "humidity"} \subseteq DOMAIN MainOf(r)
          THEN wd = [type |-> "dict", temperature |-> MainOf(r)["temp"],
                     humidity |-> MainOf(r)["humidity"]]
          ELSE wd = None
C7_TwoGaugeSubmissions ==
    /\ Len(sends) <= 2
    /\ \A k \in DOMAIN sends :
          /\ sends[k].call.type = "gauge"
          /\ Len(sends[k].call.points) = 1
          /\ Len(sends[k].call.points[1]) = 2
          /\ sends[k].call.points[1][1] \in 0..now
          /\ sends[k].call.metric =
                (IF k = 1 THEN "environment.temperature.outside"
                          ELSE "environment.humidity.outside")
          /\ sends[k].call.points[1][2] =
                (IF k = 1 THEN weather_data.temperature ELSE weather_data.humidity)
    /\ ((StepDone /\ pub_calls = 1 /\ \A k \in DOMAIN sends : sends[k].ok) =>
            Len(sends) = 2)

C7_Witness ==
    /\ pc = "wait"
    /\ weather_data = Dict(22, 0)
    /\ Len(sends) = 2
    /\ sends[1].ok
    /\ sends[2].ok
    /\ sends[1].call.points[1][1] = 300

\* C8: a signal delivered after the configuration has been validated leads
\* to a normal return of main() with status 0, and the flag stays set.
C8_GracefulExitZero ==
    sig.at \notin {"none", "validate"} =>
        /\ shutdown_flag
        /\ (pc = "exited" => (exit_code = 0 /\ uncaught = "none"))

\* C9: a signal delivered while a fetch or a publish is in progress does not
\* abort the cycle: a Reading that is returned is published with both
\* submissions attempted, and afterwards the loop ends without sleeping and
\* without another fetch.
C9_AtomicCycle ==
    sig.at \in {"request", "parse", "branch", "send_temp", "send_hum"} =>
        /\ cycle = sig.cycle
        /\ pc \notin {"for", "sleep"}
        /\ ((StepDone /\ Truthy(weather_data)) =>
                (pub_calls = 1 /\ Len(sends) = 2))

\* C10: without a signal exactly 300 one-second sleeps lie between the end
\* of a cycle's fetch/publish step and the next fetch, whatever the outcome
\* of the fetch and of the publish; no fetch starts while a wait is running.
C10_Cadence ==
    ~shutdown_flag =>
        /\ (pc \in {"request", "parse", "branch", "send_temp", "send_hum", "wait"} =>
                now = 300 * (cycle - 1))
        /\ (pc \in {"for", "sleep"} =>
                (i < 300 /\ now = 300 * (cycle - 1) + i) \/ (pc = "for" /\ i = 300 /\ now = 300 * cycle))
        /\ ((pc = "loop" /\ InLoop) => (i = 300 /\ now = 300 * cycle))

C10_Witness ==
    /\ pc = "request"
    /\ cycle = 2
    /\ ~shutdown_flag
    /\ now = 300
    /\ weather_data = None
====
